---- MODULE Spec2Model ----
(***************************************************************************)
(* A model of package table of go-gg: Tables (ordered, equal-length named  *)
(* columns), GroupIDs (a tree of identities) and Groupings (GroupID ->     *)
(* Table), with the operations Add, AddTable, GroupBy, Ungroup, Flatten    *)
(* and SortBy.                                                             *)
(*                                                                         *)
(* Conventions.                                                            *)
(*  - A Go slice is a record [kind, elems]; kind "slice" marks a slice     *)
(*    value, kind "invalid" the untyped nil interface (reflect.Invalid).   *)
(*  - Go indexes from 0, TLA+ sequences from 1: row index i of the source  *)
(*    is i+1 here.                                                         *)
(*  - A Go map is a function; the nil map and the empty map are both the   *)
(*    empty function (Add always inserts a key into the map it makes, so   *)
(*    an empty non-nil map is never stored in a Table).                    *)
(*  - A panic is an outcome record whose err field is not "".              *)
(*  - `range` over a Go map visits the keys in an unspecified order, so    *)
(*    every operation that ranges over a map yields the SET of outcomes,   *)
(*    one per visiting order.                                              *)
(***************************************************************************)
EXTENDS Integers, Sequences, FiniteSets, TLC

\* ------------------------------------------------------------------ bounds
MaxLen == 3        \* longest column a caller passes
MaxTabs == 3       \* Table objects allocated by Add calls (SpecTable)
MaxRows == 3       \* total rows of the Tables bound in the Grouping
MaxGroups == 3     \* groups bound by caller-made AddTable calls
MaxExtend == 2     \* GroupIDs made by caller-made Extend calls
MaxNodes == 4      \* GroupIDs in existence (caller-made and GroupBy-made)

Names == {"k", "v"}          \* column names callers use
Vals == {1, 2}               \* values of key columns
Labels == {"xgid"}           \* labels callers pass to Extend
AddNames == Names \cup {"w"} \* column names callers pass to Add (SpecColumns)

VARIABLES tabs, nodes, g, last, arrays, dst, passed
vars == <<tabs, nodes, g, last, arrays, dst, passed>>
convVars == <<arrays, dst, passed>>

\* A []float64 slice; the slices made by Slice are []int.
FloatSlice(s) == [kind |-> "slice", elems |-> s, type |-> "float64"]

\* The element type of slice s.
ElemTypeOf(s) == IF "type" \in DOMAIN s THEN s.type ELSE "int"

\* ------------------------------------------------------------- slices
Slice(s) == [kind |-> "slice", elems |-> s]
NilData == [kind |-> "invalid", elems |-> <<>>]

SeqsUpTo(S, n) == UNION { [1..m -> S] : m \in 0..n }
Iota(n) == [i \in 1..n |-> i]
\* The set of the elements of a sequence.
NameSet(names) == { names[i] : i \in 1..Len(names) }

\* The visiting orders of `for k := range m` over a map with key set S.
RangeOrders(S) ==
  { s \in [1..Cardinality(S) -> S] : \A i, j \in 1..Cardinality(S) : i # j => s[i] # s[j] }

\* ------------------------------------------------------------- Table
EmptyTable == [cols |-> <<>>, colNames |-> <<>>, len |-> 0]
\* The nil *Table.
NilTable == [cols |-> <<>>, colNames |-> <<>>, len |-> -1]

OkT(t) == [err |-> "", t |-> t]
PanicT(msg) == [err |-> msg, t |-> NilTable]

\* reflectSlice: panics unless s is a slice.
reflectSliceOk(s) == s.kind = "slice"

\* The loop of Add that copies every column but `name`, visiting the
\* receiver's map in order ord.
RECURSIVE AddCopy(_, _, _, _, _)
AddCopy(t, name, ord, i, nt) ==
  IF i > Len(ord) THEN nt
  ELSE LET name2 == ord[i] IN
       IF name # name2
       THEN AddCopy(t, name, ord, i + 1,
                    [nt EXCEPT !.cols = (name2 :> t.cols[name2]) @@ nt.cols,
                               !.colNames = Append(nt.colNames, name2)])
       ELSE AddCopy(t, name, ord, i + 1, nt)

\* As AddBind, without the length check.
AddBindUnchecked(nt, name, data) ==
  LET dataLen == Len(data.elems) IN
  IF Cardinality(DOMAIN nt.cols) = 0
  THEN OkT([cols |-> (name :> data) @@ nt.cols,
            colNames |-> Append(nt.colNames, name), len |-> dataLen])
  ELSE OkT([nt EXCEPT !.cols = (name :> data) @@ nt.cols,
                      !.colNames = Append(nt.colNames, name)])

\* The tail of Add: bind data to name in the new table nt.
AddBind(nt, name, data) ==
  LET dataLen == Len(data.elems) IN
  IF Cardinality(DOMAIN nt.cols) = 0
  THEN OkT([cols |-> (name :> data) @@ nt.cols,
            colNames |-> Append(nt.colNames, name), len |-> dataLen])
  ELSE IF nt.len # dataLen
  THEN PanicT("cannot add column")
  ELSE OkT([nt EXCEPT !.cols = (name :> data) @@ nt.cols,
                      !.colNames = Append(nt.colNames, name)])

\* t.Add(name, data): the set of outcomes, one per map visiting order.
TableAdd(t, name, data) ==
  IF ~reflectSliceOk(data) THEN { PanicT("is not a slice") }
  ELSE { AddBind(AddCopy(t, name, ord, 1,
                         [cols |-> <<>>, colNames |-> <<>>, len |-> t.len]),
                 name, data) : ord \in RangeOrders(DOMAIN t.cols) }

Len_(t) == t.len
Columns(t) == t.colNames
HasColumn(t, name) == name \in DOMAIN t.cols
Column(t, name) == IF name \in DOMAIN t.cols THEN t.cols[name] ELSE NilData

\* As AddOnHeap, but the new Table is built in the receiver's own struct.
AddOnHeapInPlace(h, r, o) ==
  IF o.err # "" THEN h ELSE Append([h EXCEPT ![r] = o.t], o.t)

\* The heap after t.Add returned outcome o, t being the Table at address r:
\* Add allocates the Table it returns (nt := &Table{...}) and writes only to it.
AddOnHeap(h, r, o) ==
  IF o.err # "" THEN h ELSE Append(h, o.t)

\* ------------------------------------------------------------- GroupID
\* A GroupID is the address of its groupNode in `nodes` (a sequence of
\* [parent, label] records); the zero GroupID, RootGroupID, is 0.
RootGroupID == 0

\* As Extend, but a node with the same parent and label is used again.
ExtendInterned(ns, gid, label) ==
  IF \E n \in 1..Len(ns) : ns[n] = [parent |-> gid, label |-> label]
  THEN [nodes |-> ns,
        gid |-> CHOOSE n \in 1..Len(ns) : ns[n] = [parent |-> gid, label |-> label]]
  ELSE [nodes |-> Append(ns, [parent |-> gid, label |-> label]), gid |-> Len(ns) + 1]

\* g.Extend(label): allocates a groupNode; returns the heap and the new id.
Extend(ns, gid, label) ==
  [nodes |-> Append(ns, [parent |-> gid, label |-> label]), gid |-> Len(ns) + 1]

Parent(ns, gid) == IF gid = RootGroupID THEN RootGroupID ELSE ns[gid].parent

\* ------------------------------------------------------------- Grouping
\* A Grouping is a *Table (kind "Table", field t) or a *groupedTable
\* (kind "groupedTable", fields tables, groups, colNames).
AsGrouping(t) ==
  [kind |-> "Table", t |-> t, tables |-> <<>>, groups |-> <<>>, colNames |-> <<>>]
GroupedTable(tables, groups, colNames) ==
  [kind |-> "groupedTable", t |-> EmptyTable,
   tables |-> tables, groups |-> groups, colNames |-> colNames]

OkG(gr) == [err |-> "", g |-> gr]
PanicG(msg) == [err |-> msg, g |-> AsGrouping(EmptyTable)]

\* Sequencing of calls that may panic: f is applied to every Grouping an
\* earlier call may have returned; a panic is passed on.
Then(outs, f(_)) ==
  UNION { IF o.err # "" THEN {o} ELSE f(o.g) : o \in outs }

GColumns(gr) == IF gr.kind = "Table" THEN gr.t.colNames ELSE gr.colNames

\* As Groups, but a Table counts as empty when it has no rows.
GroupsByLen(gr) ==
  IF gr.kind = "Table"
  THEN IF Len_(gr.t) = 0 THEN <<>> ELSE <<RootGroupID>>
  ELSE gr.groups

Groups(gr) ==
  IF gr.kind = "Table"
  THEN IF DOMAIN gr.t.cols = {} THEN <<>> ELSE <<RootGroupID>>
  ELSE gr.groups

\* Tables() is the later name of Groups().
Tables(gr) == Groups(gr)

Table(gr, gid) ==
  IF gr.kind = "Table"
  THEN IF gid = RootGroupID /\ DOMAIN gr.t.cols # {} THEN gr.t ELSE NilTable
  ELSE IF gid \in DOMAIN gr.tables THEN gr.tables[gid] ELSE NilTable

\* The loop of groupedTable.AddTable that copies every group but gid,
\* visiting the receiver's map in order ord.
RECURSIVE AddTableCopy(_, _, _, _, _)
AddTableCopy(gr, gid, ord, i, ng) ==
  IF i > Len(ord) THEN ng
  ELSE LET gid2 == ord[i] IN
       IF gid # gid2
       THEN AddTableCopy(gr, gid, ord, i + 1,
                         [ng EXCEPT !.tables = (gid2 :> gr.tables[gid2]) @@ ng.tables,
                                    !.groups = Append(ng.groups, gid2)])
       ELSE AddTableCopy(gr, gid, ord, i + 1, ng)

\* The first column of ng.colNames that t lacks, 0 if there is none.
FirstMissing(ng, t) ==
  LET miss == { i \in 1..Len(ng.colNames) : ng.colNames[i] \notin DOMAIN t.cols }
  IN IF miss = {} THEN 0 ELSE CHOOSE i \in miss : \A j \in miss : i <= j

\* The column names the panic message of groupedTable.AddTable can end with,
\* ng.colNames being colNames: the first missing column in the order of
\* colNames, or else the extra column that the range over the map t.cols
\* meets first, which can be any of them.
PanicColumns(colNames, t) ==
  LET miss == { i \in 1..Len(colNames) : colNames[i] \notin DOMAIN t.cols } IN
  IF miss # {} THEN { colNames[CHOOSE i \in miss : \A j \in miss : i <= j] }
  ELSE IF Cardinality(DOMAIN t.cols) # Len(colNames)
  THEN { col \in DOMAIN t.cols : \A i \in 1..Len(colNames) : colNames[i] # col }
  ELSE {}

\* As AddTableBind, without the check for extra columns.
AddTableBindNoExtra(ng, gid, t) ==
  IF Len(ng.groups) = 0
  THEN { OkG([ng EXCEPT !.tables = (gid :> t) @@ ng.tables,
                        !.groups = Append(ng.groups, gid),
                        !.colNames = Columns(t)]) }
  ELSE IF FirstMissing(ng, t) # 0
  THEN { PanicG("table missing column") }
  ELSE { OkG([ng EXCEPT !.tables = (gid :> t) @@ ng.tables,
                        !.groups = Append(ng.groups, gid)]) }

\* The tail of groupedTable.AddTable: check t's columns and bind it to gid.
AddTableBind(ng, gid, t) ==
  IF Len(ng.groups) = 0
  THEN { OkG([ng EXCEPT !.tables = (gid :> t) @@ ng.tables,
                        !.groups = Append(ng.groups, gid),
                        !.colNames = Columns(t)]) }
  ELSE IF FirstMissing(ng, t) # 0
  THEN { PanicG("table missing column") }
  ELSE IF Cardinality(DOMAIN t.cols) # Len(ng.colNames)
          /\ \E col \in DOMAIN t.cols : \A i \in 1..Len(ng.colNames) : ng.colNames[i] # col
  THEN { PanicG("table has extra column") }
  ELSE { OkG([ng EXCEPT !.tables = (gid :> t) @@ ng.tables,
                        !.groups = Append(ng.groups, gid)]) }

\* As GroupedAddTable, without the early return for an empty t.
GroupedAddTableBindsEmpty(gr, gid, t) ==
  UNION { AddTableBind(AddTableCopy(gr, gid, ord, 1,
                                    GroupedTable(<<>>, <<>>, gr.colNames)),
                       gid, t) : ord \in RangeOrders(DOMAIN gr.tables) }

\* (g *groupedTable).AddTable(gid, t)
GroupedAddTable(gr, gid, t) ==
  IF DOMAIN t.cols = {} THEN { OkG(gr) }
  ELSE UNION { AddTableBind(AddTableCopy(gr, gid, ord, 1,
                                         GroupedTable(<<>>, <<>>, gr.colNames)),
                            gid, t) : ord \in RangeOrders(DOMAIN gr.tables) }

\* (t *Table).AddTable(gid, t2)
TableAddTable(t, gid, t2) ==
  IF DOMAIN t2.cols = {} THEN { OkG(AsGrouping(t)) }
  ELSE IF gid = RootGroupID \/ DOMAIN t.cols = {} THEN { OkG(AsGrouping(t2)) }
  ELSE Then(GroupedAddTable(GroupedTable(<<>>, <<>>, <<>>), RootGroupID, t),
            LAMBDA g1 : GroupedAddTable(g1, gid, t2))

\* Grouping.AddTable, dispatched on the receiver's dynamic type.
AddTable(gr, gid, t) ==
  IF gr.kind = "Table" THEN TableAddTable(gr.t, gid, t) ELSE GroupedAddTable(gr, gid, t)

\* The total number of rows of the Tables bound in gr.
RECURSIVE SumLen(_, _)
SumLen(gr, i) ==
  IF i > Len(Groups(gr)) THEN 0 ELSE Table(gr, Groups(gr)[i]).len + SumLen(gr, i + 1)
TotalRows(gr) == SumLen(gr, 1)

\* ------------------------------------------------------------- generic
\* As MultiIndexLoop, but an index out of range is skipped.
RECURSIVE MultiIndexLoopSkips(_, _, _, _)
MultiIndexLoopSkips(v, indexes, i, res) ==
  IF i > Len(indexes) THEN [err |-> "", s |-> Slice(res), v |-> v]
  ELSE IF indexes[i] \notin 1..Len(v.elems)
  THEN MultiIndexLoopSkips(v, indexes, i + 1, res)
  ELSE MultiIndexLoopSkips(v, indexes, i + 1, Append(res, v.elems[indexes[i]]))

\* The loop of MultiIndex, for i, x := range indexes { res[i] = v[x] }: v[x]
\* panics when x is out of range; nothing is assigned to v.  The outcome
\* holds the panic, the slice returned and the slice v after the call.
RECURSIVE MultiIndexLoop(_, _, _, _)
MultiIndexLoop(v, indexes, i, res) ==
  IF i > Len(indexes) THEN [err |-> "", s |-> Slice(res), v |-> v]
  ELSE IF indexes[i] \notin 1..Len(v.elems)
  THEN [err |-> "index out of range", s |-> NilData, v |-> v]
  ELSE MultiIndexLoop(v, indexes, i + 1, Append(res, v.elems[indexes[i]]))

\* generic.MultiIndex(v, indexes): w[i] = v[indexes[i]].
MultiIndex(v, indexes) == MultiIndexLoop(v, indexes, 1, <<>>)

\* sequence(x) returns x if it is a slice (or an array), and panics otherwise.
sequenceOk(x) == x.kind = "slice"

\* As CycleLoop, but the loop ends after the first copy.
RECURSIVE CycleLoopOnce(_, _, _, _)
CycleLoopOnce(seq, length, pos, out) ==
  IF pos >= length \/ pos > 0 THEN out
  ELSE LET n == IF length - pos < Len(seq.elems) THEN length - pos ELSE Len(seq.elems) IN
       CycleLoopOnce(seq, length, pos + n,
                     [i \in 1..length |-> IF i \in (pos + 1)..(pos + n)
                                          THEN seq.elems[i - pos] ELSE out[i]])

\* The loop of Cycle, for pos := 0; pos < length; { pos += reflect.Copy(
\* out.Slice(pos, length), rv) }: Copy copies as many elements as the shorter
\* of its arguments has, from the start of rv, and returns their number.
RECURSIVE CycleLoop(_, _, _, _)
CycleLoop(seq, length, pos, out) ==
  IF pos >= length THEN out
  ELSE LET n == IF length - pos < Len(seq.elems) THEN length - pos ELSE Len(seq.elems) IN
       CycleLoop(seq, length, pos + n,
                 [i \in 1..length |-> IF i \in (pos + 1)..(pos + n)
                                      THEN seq.elems[i - pos] ELSE out[i]])

\* generic.Cycle(seq, length), length >= 0: the outcome [err, s].
Cycle(seq, length) ==
  IF ~sequenceOk(seq) THEN [err |-> "is not a sequence type", s |-> NilData]
  ELSE IF Len(seq.elems) >= length
  THEN [err |-> "", s |-> Slice(SubSeq(seq.elems, 1, length))]
  ELSE IF Len(seq.elems) = 0 THEN [err |-> "empty slice", s |-> NilData]
  ELSE [err |-> "", s |-> Slice(CycleLoop(seq, length, 0, [i \in 1..length |-> 0]))]

\* ------------------------------------------------------------- ConvertSlice
\* An element is a record [t, n]: an int n, the float64 n/2, or the string
\* made of the one rune n.  A backing array is a record [type, elems]; the
\* heap of backing arrays is a sequence, and a slice value is a record
\* [kind, type, arr, len] that starts at the first element of array arr
\* (arr = 0 for the nil slice).
ElemTypes == {"int", "float64", "string"}

Elem(t, n) == [t |-> t, n |-> n]

SliceOf(type, arr, len) == [kind |-> "slice", type |-> type, arr |-> arr, len |-> len]

NilSlice(type) == SliceOf(type, 0, 0)

NotASlice == [kind |-> "int", type |-> "int", arr |-> 0, len |-> 0]

Cap(m, s) == IF s.arr = 0 THEN 0 ELSE Len(m[s.arr].elems)

\* The elements of slice s in heap m.
ElemsOf(m, s) == IF s.arr = 0 THEN <<>> ELSE SubSeq(m[s.arr].elems, 1, s.len)

\* reflect.Type.ConvertibleTo for the element types int, float64 and string.
ConvertibleTo(from, to) ==
  \/ from = to
  \/ from \in {"int", "float64"} /\ to \in {"int", "float64"}
  \/ from = "int" /\ to = "string"

\* reflect.Value.Convert: int to float64 is exact, float64 to int drops the
\* fraction (towards zero), int to string gives the one-rune string.
Convert(x, to) ==
  IF x.t = to THEN x
  ELSE IF x.t = "int" /\ to = "float64" THEN Elem(to, 2 * x.n)
  ELSE IF x.t = "float64" /\ to = "int"
  THEN Elem(to, IF x.n >= 0 THEN x.n \div 2 ELSE 0 - ((0 - x.n) \div 2))
  ELSE Elem(to, x.n)

\* append(s, x) / reflect.Append(s, x): within capacity the element is
\* written into the backing array of s; beyond it a new array of twice the
\* capacity (1 for capacity 0) is allocated.  The outcome is [arrays, s].
AppendElem(m, s, x) ==
  IF s.len < Cap(m, s)
  THEN [arrays |-> [m EXCEPT ![s.arr].elems[s.len + 1] = x],
        s |-> [s EXCEPT !.len = s.len + 1]]
  ELSE LET newcap == IF Cap(m, s) = 0 THEN 1 ELSE 2 * Cap(m, s)
           elems == [i \in 1..newcap |->
                       IF i <= s.len THEN m[s.arr].elems[i]
                       ELSE IF i = s.len + 1 THEN x ELSE Elem(s.type, 0)]
       IN [arrays |-> Append(m, [type |-> s.type, elems |-> elems]),
           s |-> SliceOf(s.type, Len(m) + 1, s.len + 1)]

\* As ConvertLoop, but the elements are appended as they are.
RECURSIVE ConvertLoopAsIs(_, _, _, _)
ConvertLoopAsIs(m, s, from, i) ==
  IF i > from.len THEN [arrays |-> m, s |-> s]
  ELSE LET o == AppendElem(m, s, m[from.arr].elems[i]) IN
       ConvertLoopAsIs(o.arrays, o.s, from, i + 1)

\* The loops of ConvertSlice, for i := 0; i < len; i++ { *to = append(*to,
\* fv.Index(i).Convert(eltt)) }, from element i on.
RECURSIVE ConvertLoop(_, _, _, _)
ConvertLoop(m, s, from, i) ==
  IF i > from.len THEN [arrays |-> m, s |-> s]
  ELSE LET o == AppendElem(m, s, Convert(m[from.arr].elems[i], s.type)) IN
       ConvertLoop(o.arrays, o.s, from, i + 1)

\* generic.ConvertSlice(to, from) in heap m, to being &d ("ptrslice"), d
\* itself ("slice") or a pointer to an int ("ptrint"), d the value of the
\* slice variable: the outcome [err, arrays, dst].
ConvertSlice(m, d, tokind, from) ==
  IF from.kind # "slice" THEN [err |-> "is not a slice", arrays |-> m, dst |-> d]
  ELSE IF tokind # "ptrslice" THEN [err |-> "is not a *[]T", arrays |-> m, dst |-> d]
  ELSE IF from.type = d.type
  THEN [err |-> "", arrays |-> m, dst |-> SliceOf(d.type, from.arr, from.len)]
  ELSE IF ~ConvertibleTo(from.type, d.type)
  THEN [err |-> "cannot be converted", arrays |-> m, dst |-> d]
  ELSE LET o == ConvertLoop(m, [d EXCEPT !.len = 0], from, 1) IN
       [err |-> "", arrays |-> o.arrays, dst |-> o.s]

\* The order generic.Sorter(seq) gives sort: the natural order of the elements.
SorterLess(seq, i, j) == seq.elems[i] < seq.elems[j]

\* sort.IsSorted(sorter)
IsSorted(seq) ==
  \A i \in 2..Len(seq.elems) : ~SorterLess(seq, i, i - 1)

\* (s *permSort).Less and (s *permSort).Swap
permSortLess(perm, key, i, j) == SorterLess(key, perm[i], perm[j])
permSortSwap(perm, i, j) == [perm EXCEPT ![i] = perm[j], ![j] = perm[i]]

\* sort.Stable(&permSort{perm, sorter}): for the lengths in range (below its
\* block size of 20) the library runs one insertion sort,
\*   for i := a+1; i < b; i++ { for j := i; j > a && Less(j, j-1); j-- { Swap(j, j-1) } }
RECURSIVE StableInner(_, _, _)
StableInner(perm, key, j) ==
  IF j > 1 /\ permSortLess(perm, key, j, j - 1)
  THEN StableInner(permSortSwap(perm, j, j - 1), key, j - 1)
  ELSE perm
RECURSIVE StableOuter(_, _, _)
StableOuter(perm, key, i) ==
  IF i > Len(perm) THEN perm ELSE StableOuter(StableInner(perm, key, i), key, i + 1)
Stable(perm, key) == StableOuter(perm, key, 2)

\* The loop that builds a Table from the rows `rows` of t, column by column:
\*   for _, name := range t.Columns() { nt = nt.Add(name, MultiIndex(t.Column(name), rows)) }
\* i is the next column, nts the outcomes so far.
RECURSIVE ProjectLoop(_, _, _, _)
ProjectLoop(t, rows, i, nts) ==
  IF i > Len(Columns(t)) THEN nts
  ELSE LET name == Columns(t)[i] IN
       ProjectLoop(t, rows, i + 1,
         UNION { IF o.err # "" THEN {o}
                 ELSE LET seq == MultiIndex(Column(t, name), rows) IN
                      IF seq.err # "" THEN { PanicT(seq.err) }
                      ELSE TableAdd(o.t, name, seq.s) : o \in nts })
Project(t, rows) == ProjectLoop(t, rows, 1, { OkT(EmptyTable) })

\* Binds every Table of nts to gid in out; a panic is passed on.
BindAll(out, gid, nts) ==
  UNION { IF o.err # "" THEN { PanicG(o.err) } ELSE AddTable(out, gid, o.t) : o \in nts }

\* ------------------------------------------------------------- SortBy
\* The body of SortBy's loop for group gid, out being the Grouping built so far.
SortByGroup(gr, col, gid, out) ==
  LET t == Table(gr, gid) IN
  IF ~HasColumn(t, col) THEN { PanicG("unknown column") }
  ELSE LET seq == Column(t, col) IN
       IF IsSorted(seq) THEN AddTable(out, gid, t)
       ELSE BindAll(out, gid, Project(t, Stable(Iota(Len_(t)), seq)))

RECURSIVE SortByLoop(_, _, _, _)
SortByLoop(gr, col, i, outs) ==
  IF i > Len(Groups(gr)) THEN outs
  ELSE SortByLoop(gr, col, i + 1,
                  Then(outs, LAMBDA out : SortByGroup(gr, col, Groups(gr)[i], out)))

SortBy(gr, col) == SortByLoop(gr, col, 1, { OkG(AsGrouping(EmptyTable)) })

\* ------------------------------------------------------------- GroupBy
Digits == <<"0", "1", "2", "3", "4", "5", "6", "7", "8", "9">>
\* strconv.Itoa(n), n >= 0
RECURSIVE Itoa(_)
Itoa(n) == IF n < 10 THEN Digits[n + 1] ELSE Itoa(n \div 10) \o Digits[(n % 10) + 1]

\* The index GroupBy builds on column seq of group gid: st holds the node heap,
\* subgroups (the new GroupIDs in order of discovery), gidkey (key value ->
\* GroupID) and rowsMap (GroupID -> row indexes).
RECURSIVE IndexRows(_, _, _, _)
IndexRows(gid, seq, i, st) ==
  IF i > Len(seq.elems) THEN st
  ELSE LET x == seq.elems[i] IN
       IF x \in DOMAIN st.gidkey
       THEN LET subgid == st.gidkey[x] IN
            IndexRows(gid, seq, i + 1,
                      [st EXCEPT !.rowsMap = [@ EXCEPT ![subgid] = Append(@, i)]])
       ELSE LET e == Extend(st.nodes, gid, Itoa(Len(st.subgroups)))
                subgid == e.gid IN
            IndexRows(gid, seq, i + 1,
                      [nodes |-> e.nodes,
                       subgroups |-> Append(st.subgroups, subgid),
                       gidkey |-> (x :> subgid) @@ st.gidkey,
                       rowsMap |-> (subgid :> <<i>>) @@ st.rowsMap])

\* As SplitLoop, but a Table without rows is added whole, as the root group.
RECURSIVE SplitLoopKeepsEmpty(_, _, _, _)
SplitLoopKeepsEmpty(t, st, j, outs) ==
  IF Len(st.subgroups) = 0 THEN Then(outs, LAMBDA out : AddTable(out, RootGroupID, t))
  ELSE IF j > Len(st.subgroups) THEN outs
  ELSE LET subgid == st.subgroups[j] IN
       SplitLoopKeepsEmpty(t, st, j + 1,
                 Then(outs, LAMBDA out : BindAll(out, subgid, Project(t, st.rowsMap[subgid]))))

\* The loop that splits Table t into the subgroups of index st and adds them
\* to the Groupings outs.
RECURSIVE SplitLoop(_, _, _, _)
SplitLoop(t, st, j, outs) ==
  IF j > Len(st.subgroups) THEN outs
  ELSE LET subgid == st.subgroups[j] IN
       SplitLoop(t, st, j + 1,
                 Then(outs, LAMBDA out : BindAll(out, subgid, Project(t, st.rowsMap[subgid]))))

\* One level of GroupBy: the loop over the groups of gr, by column col.
\* acc is the set of [err, g, nodes] reached so far.
RECURSIVE GroupByLoop(_, _, _, _)
GroupByLoop(gr, col, i, acc) ==
  IF i > Len(Tables(gr)) THEN acc
  ELSE LET gid == Tables(gr)[i]
           t == Table(gr, gid)
           step(a) ==
             IF a.err # "" THEN {a}
             ELSE IF ~HasColumn(t, col)
             THEN { [err |-> "unknown column", g |-> a.g, nodes |-> a.nodes] }
             ELSE LET st == IndexRows(gid, Column(t, col), 1,
                                      [nodes |-> a.nodes, subgroups |-> <<>>,
                                       gidkey |-> <<>>, rowsMap |-> <<>>])
                  IN { [err |-> o.err, g |-> o.g, nodes |-> st.nodes] :
                         o \in SplitLoop(t, st, 1, { OkG(a.g) }) }
       IN GroupByLoop(gr, col, i + 1, UNION { step(a) : a \in acc })

\* GroupBy(g, cols...): the set of [err, g, nodes] it may end in.
RECURSIVE GroupBy(_, _, _)
GroupBy(ns, gr, cols) ==
  IF Len(cols) = 0 THEN { [err |-> "", g |-> gr, nodes |-> ns] }
  ELSE UNION { IF a.err # "" THEN {a} ELSE GroupBy(a.nodes, a.g, Tail(cols)) :
               a \in GroupByLoop(gr, cols[1], 1,
                       { [err |-> "", g |-> AsGrouping(EmptyTable), nodes |-> ns] }) }

\* ------------------------------------------------------------- Ungroup, Flatten
\* concatRows(tabs...).  With two or more Tables its column loop computes
\*   nilSeq := reflect.Zero(reflect.TypeOf(seqs[0]))
\* where seqs[0] is a reflect.Value, so nilSeq is the zero reflect.Value
\* struct, not a slice, and reflect.Append(nilSeq, seqs...) panics; the loop
\* body runs once per column of tabs[0].
concatRows(ts) ==
  IF Len(ts) = 0 THEN { OkT(EmptyTable) }
  ELSE IF Len(ts) = 1 THEN { OkT(ts[1]) }
  ELSE IF Len(Columns(ts[1])) = 0 THEN { OkT(EmptyTable) }
  ELSE { PanicT("reflect: call of reflect.Append on struct Value") }

\* The loop of Ungroup; st = [out, runGid, runTabs], sts the set of
\* [err, st] reached so far.
UngroupFlush(st) == BindAll(st.out, st.runGid, concatRows(st.runTabs))

RECURSIVE UngroupLoop(_, _, _, _)
UngroupLoop(ns, gr, i, sts) ==
  IF i > Len(Tables(gr)) THEN sts
  ELSE LET gid == Tables(gr)[i]
           step(s) ==
             IF s.err # "" THEN {s}
             ELSE IF Parent(ns, gid) # s.st.runGid
             THEN { [err |-> o.err,
                     st |-> [out |-> o.g, runGid |-> Parent(ns, gid),
                             runTabs |-> <<Table(gr, gid)>>]] : o \in UngroupFlush(s.st) }
             ELSE { [s EXCEPT !.st.runTabs = Append(@, Table(gr, gid))] }
       IN UngroupLoop(ns, gr, i + 1, UNION { step(s) : s \in sts })

\* Ungroup(g)
Ungroup(ns, gr) ==
  LET groups == Tables(gr) IN
  IF Len(groups) = 0 \/ (Len(groups) = 1 /\ groups[1] = RootGroupID) THEN { OkG(gr) }
  ELSE UNION { IF s.err # "" THEN { PanicG(s.err) } ELSE UngroupFlush(s.st) :
               s \in UngroupLoop(ns, gr, 1,
                       { [err |-> "", st |-> [out |-> AsGrouping(EmptyTable),
                                              runGid |-> Parent(ns, groups[1]),
                                              runTabs |-> <<>>]] }) }

\* Flatten(g)
Flatten(gr) ==
  LET groups == Tables(gr) IN
  IF Len(groups) = 0 THEN { OkT(EmptyTable) }
  ELSE IF Len(groups) = 1 THEN { OkT(Table(gr, groups[1])) }
  ELSE concatRows([i \in 1..Len(groups) |-> Table(gr, groups[i])])

\* ------------------------------------------------------------- MapTables, FilterEq
\* GroupingBuilder is not part of the sources at hand; it is modelled by what
\* MapTables is documented to return, a Grouping "with the same group
\* structure as g, but with the Tables returned by f": Add binds t to gid
\* after the groups added before, Done returns the Grouping built.
BuilderAdd(b, gid, t) ==
  GroupedTable((gid :> t) @@ b.tables,
               Append(SelectSeq(b.groups, LAMBDA gid2 : gid2 # gid), gid),
               Columns(t))
BuilderDone(b) == IF Len(b.groups) = 0 THEN AsGrouping(EmptyTable) ELSE b

\* The loop of MapTables; rs[i] is the set of outcomes of f on the i-th group
\* of gr, outs the set of [err, g] reached so far, g being the builder.
RECURSIVE MapTablesLoop(_, _, _, _)
MapTablesLoop(gr, rs, i, outs) ==
  IF i > Len(Tables(gr)) THEN outs
  ELSE MapTablesLoop(gr, rs, i + 1,
         UNION { IF b.err # "" THEN {b}
                 ELSE { IF o.err # "" THEN PanicG(o.err)
                        ELSE OkG(BuilderAdd(b.g, Tables(gr)[i], o.t)) : o \in rs[i] } :
                 b \in outs })

\* MapTables(f, g), f being given by the outcomes of f(gid, g.Table(gid)) for
\* the groups of g in order.
MapTables(rs, gr) ==
  { IF b.err # "" THEN b ELSE OkG(BuilderDone(b.g)) :
      b \in MapTablesLoop(gr, rs, 1, { OkG(GroupedTable(<<>>, <<>>, <<>>)) }) }

\* As MatchLoop, without the comparison with val.
RECURSIVE MatchLoopAll(_, _, _, _)
MatchLoopAll(seq, val, i, match) ==
  IF i > Len(seq.elems) THEN match
  ELSE MatchLoopAll(seq, val, i + 1, Append(match, i))

\* The loop of FilterEq's closure that collects the row indexes matching val.
RECURSIVE MatchLoop(_, _, _, _)
MatchLoop(seq, val, i, match) ==
  IF i > Len(seq.elems) THEN match
  ELSE MatchLoop(seq, val, i + 1,
                 IF seq.elems[i] = val THEN Append(match, i) ELSE match)

\* The closure FilterEq passes to MapTables, applied to Table t.
FilterEqTable(t, col, val) ==
  IF ~HasColumn(t, col) THEN { PanicT("unknown column") }
  ELSE Project(t, MatchLoop(Column(t, col), val, 1, <<>>))

\* FilterEq(g, col, val)
FilterEq(gr, col, val) ==
  MapTables([i \in 1..Len(Tables(gr)) |-> FilterEqTable(Table(gr, Tables(gr)[i]), col, val)], gr)

\* ------------------------------------------------------------- state
\* tabs:  the Table objects made so far, by address (tabs[1] is new(Table))
\* nodes: the groupNode objects made so far, by address
\* g:     the Grouping the caller holds
\* last:  the most recent call: its name, its panic ("" if it returned) and
\*        its arguments (recv, name, data of Add; gid, t of AddTable, with
\*        tcols = t.Columns(), t itself being kept only when the call returns;
\*        cols of GroupBy, SortBy and FilterEq; val of FilterEq; g0, the Grouping that GroupBy, SortBy,
\*        Ungroup, Flatten or FilterEq was called on; data and indexes of
\*        MultiIndex, with v, the slice data after the call, and res, the
\*        slice returned; data and length of Cycle, with res; from and
\*        tokind of ConvertSlice)
NoCall ==
  [op |-> "", err |-> "", recv |-> 0, name |-> "", data |-> NilData,
   gid |-> 0, t |-> EmptyTable, tcols |-> <<>>, cols |-> <<>>, val |-> 0,
   g0 |-> AsGrouping(EmptyTable), indexes |-> <<>>, v |-> NilData, res |-> NilData,
   length |-> 0, from |-> NotASlice, tokind |-> ""]

\* No slice variable is in use by ConvertSlice calls.
NoConv == arrays = <<>> /\ dst = NilSlice("int") /\ passed = {}

Init ==
  /\ tabs = <<EmptyTable>>
  /\ NoConv
  /\ nodes = <<>>
  /\ g = AsGrouping(EmptyTable)
  /\ last = NoCall

\* What a caller passes as data: nil, or a slice of up to MaxLen elements
\* that all carry the tag of the call, so that the columns bound by
\* different calls differ.
DataInputs(tag) == { Slice([i \in 1..n |-> tag]) : n \in 0..MaxLen } \cup { NilData }

\* tabs[r].Add(name, data) returns a new Table.
AddReturns ==
  /\ Len(tabs) < 1 + MaxTabs
  /\ \E r \in 1..Len(tabs), name \in Names, data \in DataInputs(Len(tabs)) :
       \E o \in TableAdd(tabs[r], name, data) :
         /\ o.err = ""
         /\ tabs' = AddOnHeap(tabs, r, o)
         /\ last' = [NoCall EXCEPT !.op = "Add", !.recv = r, !.name = name, !.data = data]
  /\ UNCHANGED <<nodes, g>>
  /\ UNCHANGED convVars

\* tabs[r].Add(name, data) panics.
AddPanics ==
  /\ \E r \in 1..Len(tabs), name \in Names, data \in DataInputs(Len(tabs)) :
       \E o \in TableAdd(tabs[r], name, data) :
         /\ o.err # ""
         /\ tabs' = AddOnHeap(tabs, r, o)
         /\ last' = [NoCall EXCEPT !.op = "Add", !.err = o.err, !.recv = r,
                                   !.name = name, !.data = data]
  /\ UNCHANGED <<nodes, g>>
  /\ UNCHANGED convVars

NextTable == AddReturns \/ AddPanics
SpecTable == Init /\ [][NextTable]_vars

\* tabs[r].Add(name, []int{}): the calls of a caller that builds Tables of up
\* to three zero-row columns.
AddColumn ==
  /\ Len(tabs) < 1 + MaxTabs
  /\ \E r \in 1..Len(tabs), name \in AddNames :
       \E o \in TableAdd(tabs[r], name, Slice(<<>>)) :
         /\ tabs' = AddOnHeap(tabs, r, o)
         /\ last' = [NoCall EXCEPT !.op = "Add", !.err = o.err, !.recv = r,
                                   !.name = name, !.data = Slice(<<>>)]
  /\ UNCHANGED <<nodes, g>>
  /\ UNCHANGED convVars

SpecColumns == Init /\ [][AddColumn]_vars

\* ------------------------------------------------------------- Grouping calls
\* The Tables callers pass to AddTable: the empty Table, the Tables
\* new(Table).Add("k", ks) for every key sequence ks over Vals, and the Tables
\* new(Table).Add("k", ks).Add("v", <<1, ..., n>>), whose column v tags the
\* rows so that the rows of one Table differ.
Returned(outs) == { o.t : o \in { x \in outs : x.err = "" } }
KeyTables == UNION { Returned(TableAdd(EmptyTable, "k", Slice(ks))) : ks \in SeqsUpTo(Vals, MaxLen) }
TaggedTables == UNION { Returned(TableAdd(t, "v", Slice(Iota(Len_(t))))) : t \in KeyTables }
TableInputs == { EmptyTable } \cup KeyTables \cup TaggedTables
\* AddTable looks at no row, so the calls of SpecGrouping pass the Tables of
\* at most one row.
ShortTables == { t \in TableInputs : Len_(t) <= 1 }

GroupIDs == 0..Len(nodes)

\* gid.Extend(label) by the caller.
ExtendGid ==
  /\ Len(nodes) < MaxExtend
  /\ \E gid \in GroupIDs, label \in Labels :
       /\ nodes' = Extend(nodes, gid, label).nodes
       /\ last' = [NoCall EXCEPT !.op = "Extend", !.gid = gid, !.name = label]
  /\ UNCHANGED <<tabs, g>>
  /\ UNCHANGED convVars

\* g = g.AddTable(gid, t)
AddTableReturns ==
  /\ \E gid \in GroupIDs, t \in ShortTables :
       \E o \in AddTable(g, gid, t) :
         /\ o.err = ""
         /\ Len(Groups(o.g)) <= MaxGroups
         /\ TotalRows(o.g) <= MaxRows
         /\ g' = o.g
         /\ last' = [NoCall EXCEPT !.op = "AddTable", !.gid = gid, !.t = t,
                                   !.tcols = Columns(t)]
  /\ UNCHANGED <<tabs, nodes>>
  /\ UNCHANGED convVars

\* g.AddTable(gid, t) panics.
AddTablePanics ==
  /\ \E gid \in GroupIDs, t \in ShortTables :
       \E o \in AddTable(g, gid, t) :
         /\ o.err # ""
         /\ last' = [NoCall EXCEPT !.op = "AddTable", !.err = o.err, !.gid = gid,
                                   !.tcols = Columns(t)]
  /\ UNCHANGED <<tabs, nodes, g>>
  /\ UNCHANGED convVars

NextGrouping == ExtendGid \/ AddTableReturns \/ AddTablePanics
SpecGrouping == Init /\ [][NextGrouping]_vars

\* The Tables of zero rows with up to n columns named in AddNames, every
\* column a []int, and the Table whose one column k is a []float64.
RECURSIVE WideTables(_)
WideTables(n) ==
  IF n = 0 THEN { EmptyTable }
  ELSE LET W == WideTables(n - 1) IN
       W \cup UNION { Returned(TableAdd(t, name, data)) :
                       <<t, name, data>> \in
                         { x \in W \X AddNames \X { Slice(<<>>), FloatSlice(<<>>) } :
                             /\ ~HasColumn(x[1], x[2])
                             /\ x[3] = FloatSlice(<<>>) => (x[2] = "k" /\ x[1] = EmptyTable)
                             /\ \A c \in DOMAIN x[1].cols : ElemTypeOf(x[1].cols[c]) = "int" } }

MaxWide == 2                   \* groups bound in the Grouping (SpecWide)

\* g = g.AddTable(gid, t), t having up to three columns.
AddWideReturns ==
  /\ \E gid \in GroupIDs, t \in WideTables(Cardinality(AddNames)) :
       \E o \in AddTable(g, gid, t) :
         /\ o.err = ""
         /\ Len(Groups(o.g)) <= MaxWide
         /\ g' = o.g
         /\ last' = [NoCall EXCEPT !.op = "AddTable", !.gid = gid, !.t = t,
                                   !.tcols = Columns(t)]
  /\ UNCHANGED <<tabs, nodes>>
  /\ UNCHANGED convVars

\* g.AddTable(gid, t) panics, with a message that ends with column name col.
AddWidePanics ==
  /\ \E gid \in GroupIDs, t \in WideTables(Cardinality(AddNames)) :
       \E o \in AddTable(g, gid, t), col \in PanicColumns(GColumns(g), t) :
         /\ o.err # ""
         /\ last' = [NoCall EXCEPT !.op = "AddTable", !.err = o.err, !.gid = gid,
                                   !.t = t, !.tcols = Columns(t), !.name = col]
  /\ UNCHANGED <<tabs, nodes, g>>
  /\ UNCHANGED convVars

\* A caller holds MaxExtend GroupIDs, children of RootGroupID, and the empty
\* Grouping.
InitWide ==
  /\ tabs = <<EmptyTable>>
  /\ NoConv
  /\ nodes = [n \in 1..MaxExtend |-> [parent |-> RootGroupID, label |-> "xgid"]]
  /\ g = AsGrouping(EmptyTable)
  /\ last = NoCall

NextWide == AddWideReturns \/ AddWidePanics
SpecWide == InitWide /\ [][NextWide]_vars

\* ------------------------------------------------------------- operations
\* The node heaps callers make with up to n Extend calls.
RECURSIVE NodeHeaps(_)
NodeHeaps(n) ==
  IF n = 0 THEN { <<>> }
  ELSE LET H == NodeHeaps(n - 1) IN
       H \cup { Extend(h, gid, label).nodes :
                  <<h, gid, label>> \in { x \in H \X (0..(n - 1)) \X Labels :
                                           Len(x[1]) = n - 1 /\ x[2] <= Len(x[1]) } }

\* The Groupings callers make from the empty Table with up to n AddTable
\* calls, binding Tables of TableInputs to the GroupIDs 0..MaxExtend.
RECURSIVE Built(_)
Built(n) ==
  IF n = 0 THEN { AsGrouping(EmptyTable) }
  ELSE LET B == Built(n - 1) IN
       B \cup UNION { { o.g : o \in { x \in AddTable(a[1], a[2], a[3]) :
                                        /\ x.err = ""
                                        /\ Len(Groups(x.g)) <= MaxGroups
                                        /\ TotalRows(x.g) <= MaxRows } } :
                      a \in B \X (0..MaxExtend) \X (TableInputs \ { EmptyTable }) }

UsesOnly(gr, ns) == \A i \in 1..Len(Groups(gr)) : Groups(gr)[i] <= Len(ns)

\* The caller holds a Grouping made by AddTable calls, over GroupIDs made by
\* Extend calls.
InitOps ==
  /\ tabs = <<EmptyTable>>
  /\ NoConv
  /\ nodes \in NodeHeaps(MaxExtend)
  /\ g \in { gr \in Built(MaxGroups) : UsesOnly(gr, nodes) }
  /\ last = NoCall

ColLists == SeqsUpTo(Names, 2)

\* g = GroupBy(g, cols...)
GroupByCall ==
  /\ \E cols \in ColLists : \E o \in GroupBy(nodes, g, cols) :
       /\ Len(o.nodes) <= MaxNodes
       /\ last' = [NoCall EXCEPT !.op = "GroupBy", !.err = o.err, !.cols = cols, !.g0 = g]
       /\ IF o.err = "" THEN g' = o.g /\ nodes' = o.nodes
                        ELSE UNCHANGED <<g, nodes>>
  /\ UNCHANGED tabs
  /\ UNCHANGED convVars

\* g = SortBy(g, col)
SortByCall ==
  /\ \E col \in Names : \E o \in SortBy(g, col) :
       /\ last' = [NoCall EXCEPT !.op = "SortBy", !.err = o.err, !.cols = <<col>>, !.g0 = g]
       /\ g' = IF o.err = "" THEN o.g ELSE g
  /\ UNCHANGED <<tabs, nodes>>
  /\ UNCHANGED convVars

\* g = Ungroup(g)
UngroupCall ==
  /\ \E o \in Ungroup(nodes, g) :
       /\ last' = [NoCall EXCEPT !.op = "Ungroup", !.err = o.err, !.g0 = g]
       /\ g' = IF o.err = "" THEN o.g ELSE g
  /\ UNCHANGED <<tabs, nodes>>
  /\ UNCHANGED convVars

\* g = Flatten(g)
FlattenCall ==
  /\ \E o \in Flatten(g) :
       /\ last' = [NoCall EXCEPT !.op = "Flatten", !.err = o.err, !.g0 = g]
       /\ g' = IF o.err = "" THEN AsGrouping(o.t) ELSE g
  /\ UNCHANGED <<tabs, nodes>>
  /\ UNCHANGED convVars

NextOps == GroupByCall \/ SortByCall \/ UngroupCall \/ FlattenCall
SpecOps == InitOps /\ [][NextOps]_vars

\* The values callers pass to FilterEq: the key values and one more.
FilterVals == Vals \cup {3}

\* g = FilterEq(g, col, val)
FilterEqCall ==
  /\ \E col \in Names, val \in FilterVals : \E o \in FilterEq(g, col, val) :
       /\ last' = [NoCall EXCEPT !.op = "FilterEq", !.err = o.err, !.cols = <<col>>,
                                 !.val = val, !.g0 = g]
       /\ g' = IF o.err = "" THEN o.g ELSE g
  /\ UNCHANGED <<tabs, nodes>>
  /\ UNCHANGED convVars

\* lens[1] + ... + lens[i]
RECURSIVE SumTo(_, _)
SumTo(lens, i) == IF i = 0 THEN 0 ELSE lens[i] + SumTo(lens, i - 1)

\* The Table of KeyTables with keys ks, or the one of TaggedTables made from it.
TableOfKeys(ks, tagged) ==
  LET t == CHOOSE x \in Returned(TableAdd(EmptyTable, "k", Slice(ks))) : TRUE IN
  IF tagged THEN CHOOSE x \in Returned(TableAdd(t, "v", Slice(Iota(Len_(t))))) : TRUE
  ELSE t

\* Orders in which the GroupIDs 0..n, n <= MaxExtend, are bound by AddTable
\* calls from the empty Table: the first Table bound is bound to
\* RootGroupID, and the groups kept by a later call are copied in map order,
\* so every order occurs; the calls here take the ascending and the
\* descending one.
GroupLists ==
  { <<>> } \cup UNION { { [i \in 1..n |-> i - 1], [i \in 1..n |-> n - i] } :
                        n \in { m \in 1..(MaxExtend + 1) : m <= MaxGroups } }

\* The Grouping that binds ts[i] to groups[i].
GroupingOf(groups, ts) ==
  IF Len(groups) = 0 THEN AsGrouping(EmptyTable)
  ELSE IF Len(groups) = 1 THEN AsGrouping(ts[1])
  ELSE GroupedTable([gid \in NameSet(groups) |->
                       ts[CHOOSE i \in 1..Len(groups) : groups[i] = gid]],
                    groups, Columns(ts[1]))

\* The caller holds a Grouping made by AddTable calls whose Tables have the
\* column k, or the columns k and v, lens[i] rows in the i-th group and at
\* most MaxRows rows in all, with the keys `keys` from the first row of the
\* first group on; its GroupIDs were made by RootGroupID.Extend.
InitFilter ==
  /\ tabs = <<EmptyTable>>
  /\ NoConv
  /\ last = NoCall
  /\ \E groups \in GroupLists, tagged \in BOOLEAN :
       \E lens \in [1..Len(groups) -> 0..MaxLen] :
         /\ SumTo(lens, Len(groups)) <= MaxRows
         /\ \E keys \in [1..SumTo(lens, Len(groups)) -> Vals] :
              g = GroupingOf(groups,
                    [i \in 1..Len(groups) |->
                       TableOfKeys(SubSeq(keys, SumTo(lens, i - 1) + 1, SumTo(lens, i)), tagged)])
         /\ nodes = [i \in 1..MaxExtend |-> [parent |-> RootGroupID, label |-> "xgid"]]

SpecFilter == InitFilter /\ [][FilterEqCall]_vars

\* ------------------------------------------------------------- MultiIndex calls
MaxIndexes == 4                \* longest index list a caller passes
Elems == {10, 20, 30}          \* elements of the slices passed to MultiIndex

\* A caller is about to call MultiIndex(data, indexes); the indexes may
\* repeat, be out of order or out of range (0 and Len + 1 included).
InitIndex ==
  /\ tabs = <<EmptyTable>>
  /\ NoConv
  /\ nodes = <<>>
  /\ g = AsGrouping(EmptyTable)
  /\ \E elems \in SeqsUpTo(Elems, MaxLen), indexes \in SeqsUpTo(0..(MaxLen + 1), MaxIndexes) :
       last = [NoCall EXCEPT !.data = Slice(elems), !.indexes = indexes]

\* MultiIndex(data, indexes) returns or panics.
MultiIndexCall ==
  /\ last.op = ""
  /\ LET o == MultiIndex(last.data, last.indexes) IN
       last' = [last EXCEPT !.op = "MultiIndex", !.err = o.err, !.v = o.v, !.res = o.s]
  /\ UNCHANGED <<tabs, nodes, g>>
  /\ UNCHANGED convVars

SpecIndex == InitIndex /\ [][MultiIndexCall]_vars

\* ------------------------------------------------------------- Cycle calls
MaxCycle == 5                  \* greatest length a caller passes to Cycle

\* A caller is about to call Cycle(data, length).
InitCycle ==
  /\ tabs = <<EmptyTable>>
  /\ NoConv
  /\ nodes = <<>>
  /\ g = AsGrouping(EmptyTable)
  /\ \E elems \in SeqsUpTo(Vals, MaxLen), length \in 0..MaxCycle :
       last = [NoCall EXCEPT !.data = Slice(elems), !.length = length]

\* Cycle(data, length) returns or panics.
CycleCall ==
  /\ last.op = ""
  /\ LET o == Cycle(last.data, last.length) IN
       last' = [last EXCEPT !.op = "Cycle", !.err = o.err, !.res = o.s]
  /\ UNCHANGED <<tabs, nodes, g>>
  /\ UNCHANGED convVars

SpecCycle == InitCycle /\ [][CycleCall]_vars

\* ------------------------------------------------------------- ConvertSlice calls
MaxSrcs == 2                   \* slices the caller holds
MaxSrcLen == 2                 \* length of a slice the caller holds
MaxArrays == 4                 \* backing arrays in existence

\* The n of element i of a slice the caller holds: 3, 1, 3, ... (as float64
\* 1.5, 0.5, 1.5, ...).
SrcVal(i) == IF i % 2 = 1 THEN 3 ELSE 1

\* The slices the caller holds: arrays 1..MaxSrcs, each at its full length.
Src(m, a) == SliceOf(m[a].type, a, Len(m[a].elems))

\* A caller holds MaxSrcs slices and a nil slice variable dst.
InitConvert ==
  /\ tabs = <<EmptyTable>>
  /\ nodes = <<>>
  /\ g = AsGrouping(EmptyTable)
  /\ last = NoCall
  /\ \E types \in [1..MaxSrcs -> ElemTypes], lens \in [1..MaxSrcs -> 0..MaxSrcLen] :
       arrays = [a \in 1..MaxSrcs |->
                  [type |-> types[a],
                   elems |-> [i \in 1..lens[a] |-> Elem(types[a], SrcVal(i))]]]
  /\ \E type \in ElemTypes : dst = NilSlice(type)
  /\ passed = {}

\* ConvertSlice(to, from) returns or panics; from is one of the caller's
\* slices or the int 1, to is &dst, dst or a pointer to an int.
ConvertCall ==
  /\ Len(arrays) < MaxArrays
  /\ \E from \in {Src(arrays, a) : a \in 1..MaxSrcs} \cup {NotASlice},
        tokind \in {"ptrslice", "slice", "ptrint"} :
       LET o == ConvertSlice(arrays, dst, tokind, from) IN
       /\ arrays' = o.arrays
       /\ dst' = o.dst
       /\ passed' = IF from.kind = "slice" THEN passed \cup {from.arr} ELSE passed
       /\ last' = [NoCall EXCEPT !.op = "ConvertSlice", !.err = o.err,
                                 !.from = from, !.tokind = tokind]
  /\ UNCHANGED <<tabs, nodes, g>>

SpecConvert == InitConvert /\ [][ConvertCall]_vars

\* ------------------------------------------------------------- Table claims
\* C1: every Table obtained from the empty Table by Add calls, failed calls
\* included, has all of its columns of length exactly Len(); the empty Table
\* has zero columns and Len() = 0.
C1_ColumnsHaveLen ==
  /\ \A i \in 1..Len(tabs) : \A n \in Names :
       HasColumn(tabs[i], n) => Len(Column(tabs[i], n).elems) = Len_(tabs[i])
  /\ Columns(tabs[1]) = <<>> /\ Len_(tabs[1]) = 0
  /\ \A n \in Names : ~HasColumn(tabs[1], n)

\* A Table with two columns of two or more rows exists, and the last Add
\* failed on a length mismatch.
C1_Witness ==
  /\ last.op = "Add" /\ last.err = "cannot add column"
  /\ \E i \in 1..Len(tabs) : Len(Columns(tabs[i])) = 2 /\ Len_(tabs[i]) >= 2

\* C3: no call of Add, returning or failing, changes Columns(), Len() or
\* Column(n) of a Table that existed before the call (its receiver included).
C3_AddKeepsReceiver ==
  [][\A i \in 1..Len(tabs) :
       /\ Columns(tabs'[i]) = Columns(tabs[i])
       /\ Len_(tabs'[i]) = Len_(tabs[i])
       /\ \A n \in Names : Column(tabs'[i], n) = Column(tabs[i], n)]_vars

\* The last call tried to add a 2-element column to a Table holding a
\* 3-element column, and failed.
C3_Witness ==
  /\ last.op = "Add" /\ last.err = "cannot add column"
  /\ Len(last.data.elems) = 2
  /\ Len_(tabs[last.recv]) = 3 /\ Len(Columns(tabs[last.recv])) >= 1

\* The names of seq without name, in order.
Without(seq, name) == SelectSeq(seq, LAMBDA n : n # name)

\* C11: after a successful t.Add(name, data), Columns() of the new Table is
\* Columns() of t without name, in t's order, followed by name: a new name
\* is appended, a name added again moves to the end, the others keep their
\* relative order.
C11_ColumnOrder ==
  (last.op = "Add" /\ last.err = "") =>
    Columns(tabs[Len(tabs)]) = Append(Without(Columns(tabs[last.recv]), last.name), last.name)

\* C13: t.Add(name, data) with a slice data fails with the length-mismatch
\* panic whenever t has a column other than name and len(data) differs from
\* t.Len(), and returns otherwise; when t has no column other than name (the
\* empty Table, or a Table whose only column is name) it never fails on
\* length and len(data) becomes the row count.
C13_AddLengthCheck ==
  (last.op = "Add" /\ reflectSliceOk(last.data)) =>
    LET t == tabs[last.recv]
        others == DOMAIN t.cols \ { last.name }
        dataLen == Len(last.data.elems)
    IN /\ (others # {} /\ dataLen # Len_(t)) => last.err = "cannot add column"
       /\ (others # {} /\ dataLen = Len_(t)) =>
            last.err = "" /\ Len_(tabs[Len(tabs)]) = Len_(t)
       /\ others = {} => last.err = "" /\ Len_(tabs[Len(tabs)]) = dataLen

\* The last Add failed: its receiver holds two columns, one of them the
\* column being replaced, and data has one element more or less.
C13_Witness ==
  /\ last.op = "Add" /\ last.err = "cannot add column"
  /\ HasColumn(tabs[last.recv], last.name)
  /\ Len(Columns(tabs[last.recv])) = 2
  /\ Len(last.data.elems) # Len_(tabs[last.recv])

\* C13 as stated: Add fails with the length-mismatch panic whenever the
\* receiver has at least one column and len(data) differs from its row count.
C13_AsStated ==
  (last.op = "Add" /\ reflectSliceOk(last.data)) =>
    LET t == tabs[last.recv]
        dataLen == Len(last.data.elems)
    IN /\ (DOMAIN t.cols # {} /\ dataLen # Len_(t)) => last.err = "cannot add column"
       /\ DOMAIN t.cols = {} => last.err = "" /\ Len_(tabs[Len(tabs)]) = dataLen

\* ------------------------------------------------------------- Grouping claims
GroupSet(gr) == NameSet(Groups(gr))

\* C2: all Tables bound in the Grouping made by any sequence of AddTable calls
\* have the same set of column names, and Columns() of the Grouping is that
\* set, each name once (no name at all when there are no groups).
C2_SameColumnSet ==
  /\ \A gid \in GroupSet(g) : NameSet(Columns(Table(g, gid))) = NameSet(GColumns(g))
  /\ Cardinality(NameSet(GColumns(g))) = Len(GColumns(g))
  /\ Len(Groups(g)) = 0 => GColumns(g) = <<>>

\* Three groups of two columns are bound, the last by the call just made.
C2_Witness ==
  /\ last.op = "AddTable" /\ last.err = ""
  /\ Len(Groups(g)) = 3 /\ Len(GColumns(g)) = 2
  /\ Table(g, last.gid) = last.t

\* C4: g.AddTable(gid, t) with a non-empty t of a compatible column set
\* returns a Grouping in which Table(gid) is t, gid occurs exactly once in
\* Groups(), and every other GroupID of g is still bound to the same Table.
C4_AddTableBindsGid ==
  [][(last'.op = "AddTable" /\ last'.err = "" /\ last'.t # EmptyTable) =>
       /\ Table(g', last'.gid) = last'.t
       /\ Cardinality({ i \in 1..Len(Groups(g')) : Groups(g')[i] = last'.gid }) = 1
       /\ \A gid \in GroupSet(g) \ { last'.gid } : Table(g', gid) = Table(g, gid)]_vars

\* C12: every successful AddTable(gid, t) of a non-empty t, in a sequence of
\* calls from the empty Table, leaves Groups() as it was without gid, in the
\* same order, followed by gid: a new GroupID is appended, a GroupID added
\* again moves to the end, the others keep their relative order.
C12_GroupOrder ==
  [][(last'.op = "AddTable" /\ last'.err = "" /\ last'.t # EmptyTable) =>
       Groups(g') = Append(Without(Groups(g), last'.gid), last'.gid)]_vars

\* C14: g.AddTable(gid, t) with a non-empty t adopts t's column set when g
\* has no group other than gid; when g has a group other than gid the call
\* fails with the missing-column panic if t lacks a column of g, with the
\* extra-column panic if t has every column of g and one more, and returns
\* if the column sets are equal; a failed call leaves g as it was.
C14_AddTableColumns ==
  [][(last'.op = "AddTable" /\ last'.tcols # <<>>) =>
       LET others == GroupSet(g) \ { last'.gid }
           tc == NameSet(last'.tcols)
           gc == NameSet(GColumns(g))
       IN /\ others = {} => last'.err = "" /\ NameSet(GColumns(g')) = tc
          /\ (others # {} /\ ~(gc \subseteq tc)) =>
               last'.err = "table missing column" /\ g' = g
          /\ (others # {} /\ gc \subseteq tc /\ gc # tc) =>
               last'.err = "table has extra column" /\ g' = g
          /\ (others # {} /\ gc = tc) => last'.err = "" /\ GColumns(g') = GColumns(g)]_vars

\* The last AddTable failed on an extra column, on a Grouping of two groups
\* of one column.
C14_Witness ==
  /\ last.op = "AddTable" /\ last.err = "table has extra column"
  /\ Len(last.tcols) = 2
  /\ Len(Groups(g)) = 2 /\ Len(GColumns(g)) = 1

\* C14 as stated: the call adopts t's columns when g has no groups, and
\* fails whenever g has a group and t's column set differs from g's.
C14_AsStated ==
  [][(last'.op = "AddTable" /\ last'.tcols # <<>>) =>
       LET tc == NameSet(last'.tcols)
           gc == NameSet(GColumns(g))
       IN /\ Groups(g) = <<>> => last'.err = "" /\ NameSet(GColumns(g')) = tc
          /\ (Groups(g) # <<>> /\ gc # tc) => last'.err # "" /\ g' = g
          /\ (Groups(g) # <<>> /\ gc = tc) => last'.err = ""]_vars

\* C15: g.AddTable(gid, t) with the empty Table t returns, and its result has
\* the Groups(), the Columns() and the bound Tables of g, the Table bound to
\* gid included.
C15_AddEmptyTableNoOp ==
  [][(last'.op = "AddTable" /\ last'.tcols = <<>>) =>
       /\ last'.err = ""
       /\ Groups(g') = Groups(g)
       /\ GColumns(g') = GColumns(g)
       /\ \A gid \in GroupIDs : Table(g', gid) = Table(g, gid)]_vars

\* The empty Table was just added under a GroupID bound in a Grouping of
\* three groups.
C15_Witness ==
  /\ last.op = "AddTable" /\ last.err = "" /\ last.tcols = <<>>
  /\ Len(Groups(g)) = 3 /\ last.gid \in GroupSet(g)
  /\ Table(g, last.gid) # NilTable

\* ------------------------------------------------------------- claims on rows
\* The values of column c of t, and the rows of t whose c is v, in order.
KeyVals(t, c) == { t.cols[c].elems[i] : i \in 1..Len_(t) }
RowsWhere(t, c, v) == SelectSeq(Iota(Len_(t)), LAMBDA i : t.cols[c].elems[i] = v)

\* ct holds exactly the rows `rows` of t, in that order, in every column of t.
HoldsRows(ct, t, rows) ==
  /\ DOMAIN ct.cols = DOMAIN t.cols
  /\ Len_(ct) = Len(rows)
  /\ \A name \in DOMAIN t.cols :
       ct.cols[name].elems = [j \in 1..Len(rows) |-> t.cols[name].elems[rows[j]]]

\* The rows of the Tables ts[1], ts[2], ..., one after the other, as a
\* function from the column names of ts[1] to sequences of values.
RECURSIVE ConcatElems(_, _, _)
ConcatElems(ts, name, i) ==
  IF i > Len(ts) THEN <<>> ELSE ts[i].cols[name].elems \o ConcatElems(ts, name, i + 1)
HoldsConcat(ct, ts) ==
  /\ DOMAIN ct.cols = DOMAIN ts[1].cols
  /\ \A name \in DOMAIN ct.cols : ct.cols[name].elems = ConcatElems(ts, name, 1)

\* C5: GroupBy(g, c) splits every group p of g into child groups (the groups
\* of the result whose Parent() is p): each child holds exactly the rows of
\* p's Table that share one value of c, in p's row order and in every column,
\* and every value of c in p's Table has exactly one child.
C5_GroupBySplits ==
  (last.op = "GroupBy" /\ last.err = "" /\ Len(last.cols) = 1) =>
    LET c == last.cols[1] IN
    \A p \in GroupSet(last.g0) :
      LET t == Table(last.g0, p)
          kids == { gid \in GroupSet(g) : Parent(nodes, gid) = p }
      IN /\ \A kid \in kids :
              \E v \in KeyVals(t, c) : HoldsRows(Table(g, kid), t, RowsWhere(t, c, v))
         /\ \A v \in KeyVals(t, c) :
              Cardinality({ kid \in kids : HoldsRows(Table(g, kid), t, RowsWhere(t, c, v)) }) = 1

\* C6: for a Table t, Flatten(GroupBy(t, cols...)) returns a Table with the
\* columns of t and the same multiset of rows, rows of t that agree on all of
\* cols keeping their relative order: some permutation of the rows of t that
\* keeps such rows in order gives the result.
RowPerms(n) == { f \in [1..n -> 1..n] : \A i, j \in 1..n : i # j => f[i] # f[j] }
AgreeOn(t, cols, i, j) == \A x \in 1..Len(cols) : t.cols[cols[x]].elems[i] = t.cols[cols[x]].elems[j]
C6_FlattenGroupBy ==
  (last.op = "GroupBy" /\ last.err = "" /\ last.g0.kind = "Table" /\ last.g0.t # EmptyTable) =>
    LET t == last.g0.t IN
    \A o \in Flatten(g) :
      /\ o.err = ""
      /\ \E perm \in RowPerms(Len_(t)) :
           /\ HoldsRows(o.t, t, perm)
           /\ \A i, j \in 1..Len_(t) :
                (i < j /\ AgreeOn(t, last.cols, perm[i], perm[j])) => perm[i] < perm[j]

\* C7: Ungroup(g) binds, to every GroupID p that is the Parent() of a group
\* of g, one Table holding the rows of all groups of g whose Parent() is p,
\* in g's group order; the total number of rows is that of g.
SiblingTables(ns, gr, p) ==
  LET idx == SelectSeq(Iota(Len(Groups(gr))), LAMBDA i : Parent(ns, Groups(gr)[i]) = p)
  IN [j \in 1..Len(idx) |-> Table(gr, Groups(gr)[idx[j]])]
C7_UngroupConcats ==
  (last.op = "Ungroup" /\ Len(Groups(last.g0)) > 0) =>
    /\ last.err = ""
    /\ \A p \in { Parent(nodes, gid) : gid \in GroupSet(last.g0) } :
         /\ p \in GroupSet(g)
         /\ HoldsConcat(Table(g, p), SiblingTables(nodes, last.g0, p))
    /\ TotalRows(g) = TotalRows(last.g0)

\* C8: Flatten(g) returns the empty Table when g has no group, the one bound
\* Table itself when g has one group, and otherwise a Table with g's columns
\* whose rows are the rows of the groups' Tables in Groups() order.
C8_FlattenResult ==
  (last.op = "Flatten") =>
    LET gs == Groups(last.g0) IN
    /\ last.err = ""
    /\ Len(gs) = 0 => g = AsGrouping(EmptyTable)
    /\ Len(gs) = 1 => g = AsGrouping(Table(last.g0, gs[1]))
    /\ Len(gs) >= 2 =>
         /\ g.kind = "Table"
         /\ NameSet(Columns(g.t)) = NameSet(GColumns(last.g0))
         /\ HoldsConcat(g.t, [i \in 1..Len(gs) |-> Table(last.g0, gs[i])])

\* C9: SortBy(g, col) binds to every group of g a Table whose rows are a
\* permutation of the group's rows, the same for every column, with col in
\* non-decreasing order and rows of equal col in their original order.
C9_SortBySorts ==
  (last.op = "SortBy" /\ last.err = "") =>
    LET col == last.cols[1] IN
    \A gid \in GroupSet(last.g0) :
      LET t == Table(last.g0, gid)
          nt == Table(g, gid)
      IN /\ nt # NilTable
         /\ \E perm \in RowPerms(Len_(t)) :
              /\ HoldsRows(nt, t, perm)
              /\ \A i, j \in 1..Len_(t) : i < j =>
                   \/ t.cols[col].elems[perm[i]] < t.cols[col].elems[perm[j]]
                   \/ /\ t.cols[col].elems[perm[i]] = t.cols[col].elems[perm[j]]
                      /\ perm[i] < perm[j]

\* C10: SortBy(g, col) returns a Grouping with the GroupIDs of g in the same
\* Groups() order, also when the only group of g is not the root group.
C10_SortByKeepsGroups ==
  (last.op = "SortBy" /\ last.err = "") => Groups(g) = Groups(last.g0)

\* The distinct values of seq in the order in which they are first seen.
RECURSIVE FirstSeen(_, _, _)
FirstSeen(seq, i, acc) ==
  IF i > Len(seq) THEN acc
  ELSE FirstSeen(seq, i + 1,
                 IF seq[i] \in NameSet(acc) THEN acc ELSE Append(acc, seq[i]))

\* C16: GroupBy(g, c) gives every parent group p one child per value of c,
\* with a fresh GroupID whose Parent() is p and whose label is "0", "1", ...
\* in the order in which the values are first seen in p's rows; the children
\* of p appear in the result's Groups() in that order, each holding the rows
\* of its value, and the result has no other group.
C16_GroupByChildIDs ==
  (last.op = "GroupBy" /\ last.err = "" /\ Len(last.cols) = 1) =>
    LET c == last.cols[1] IN
    /\ \A gid \in GroupSet(g) :
         gid # RootGroupID /\ gid \notin GroupSet(last.g0)
                           /\ Parent(nodes, gid) \in GroupSet(last.g0)
    /\ \A p \in GroupSet(last.g0) :
         LET t == Table(last.g0, p)
             vals == FirstSeen(t.cols[c].elems, 1, <<>>)
             kids == SelectSeq(Groups(g), LAMBDA gid :
                       gid # RootGroupID /\ Parent(nodes, gid) = p)
         IN /\ Len(kids) = Len(vals)
            /\ \A j \in 1..Len(kids) :
                 /\ nodes[kids[j]].label = Itoa(j - 1)
                 /\ HoldsRows(Table(g, kids[j]), t, RowsWhere(t, c, vals[j]))

\* C17: for a Grouping g and a column c, Ungroup(GroupBy(g, c)) returns a
\* Grouping with the GroupIDs of g that binds to each of them a Table with
\* the columns and the rows, in the same order, of the Table g binds to it.
C17_UngroupGroupBy ==
  (last.op = "GroupBy" /\ last.err = "" /\ Len(last.cols) = 1) =>
    \A o \in Ungroup(nodes, g) :
      /\ o.err = ""
      /\ GroupSet(o.g) = GroupSet(last.g0)
      /\ \A gid \in GroupSet(last.g0) :
           HoldsRows(Table(o.g, gid), Table(last.g0, gid), Iota(Len_(Table(last.g0, gid))))

\* C18: SortBy is idempotent: on the Grouping SortBy(g, c) returned, every
\* group's column c is sorted, so that a second SortBy by c re-binds each
\* Table as it is, and the second call returns a Grouping with the same
\* groups in the same order, the same columns and the same Tables.
C18_SortByIdempotent ==
  (last.op = "SortBy" /\ last.err = "") =>
    LET c == last.cols[1] IN
    /\ \A gid \in GroupSet(g) : IsSorted(Column(Table(g, gid), c))
    /\ \A o \in SortBy(g, c) :
         /\ o.err = ""
         /\ Groups(o.g) = Groups(g)
         /\ GColumns(o.g) = GColumns(g)
         /\ \A gid \in GroupSet(g) : Table(o.g, gid) = Table(g, gid)

\* C19: FilterEq(g, col, val), col being a column of g, returns a Grouping
\* with the groups of g in the same order, each bound to a Table that holds,
\* in every column of the group's Table, exactly the rows whose col equals
\* val, in their original order; a group without such a row stays, bound to
\* a Table with the same columns and no rows.
C19_FilterEqKeepsRows ==
  (last.op = "FilterEq" /\ last.cols[1] \in NameSet(GColumns(last.g0))) =>
    /\ last.err = ""
    /\ Groups(g) = Groups(last.g0)
    /\ \A gid \in GroupSet(last.g0) :
         LET t == Table(last.g0, gid) IN
         /\ HoldsRows(Table(g, gid), t, RowsWhere(t, last.cols[1], last.val))
         /\ NameSet(Columns(Table(g, gid))) = NameSet(Columns(t))

\* FilterEq was called on three groups of two columns: one of them has no
\* matching row and is bound to a Table of no rows, another one had two
\* rows and keeps one.
C19_Witness ==
  /\ last.op = "FilterEq" /\ last.err = ""
  /\ Len(Groups(last.g0)) = 3 /\ Len(GColumns(last.g0)) = 2
  /\ \E gid \in GroupSet(g) :
       Len_(Table(last.g0, gid)) >= 1 /\ Len_(Table(g, gid)) = 0
  /\ \E gid \in GroupSet(g) :
       Len_(Table(last.g0, gid)) = 2 /\ Len_(Table(g, gid)) = 1

C22_ConvertSliceStep ==
  (last'.op = "ConvertSlice") =>
    LET from == last'.from
        fails == \/ from.kind # "slice"
                 \/ last'.tokind # "ptrslice"
                 \/ ~ConvertibleTo(from.type, dst.type)
    IN /\ (last'.err # "") <=> fails
       /\ fails => dst' = dst /\ ElemsOf(arrays', dst') = ElemsOf(arrays, dst)
       /\ (~fails /\ from.type = dst.type) => dst' = from
       /\ (~fails /\ from.type # dst.type) =>
            /\ dst'.len = from.len
            /\ \A i \in 1..from.len :
                 ElemsOf(arrays', dst')[i] = Convert(ElemsOf(arrays, from)[i], dst.type)

C22_ConvertSlice == [][C22_ConvertSliceStep]_vars

\* The float64 slice [1.5, 0.5] has been converted into an int slice
\* variable, which holds [1, 0].
C22_Witness ==
  /\ last.op = "ConvertSlice" /\ last.err = ""
  /\ last.from.type = "float64" /\ dst.type = "int" /\ dst.len = 2
  /\ ElemsOf(arrays, last.from) = <<Elem("float64", 3), Elem("float64", 1)>>
  /\ ElemsOf(arrays, dst) = <<Elem("int", 1), Elem("int", 0)>>

\* C27: no ConvertSlice call changes the contents of a slice that was passed
\* as the source of an earlier call on the same destination variable.
C27_SourcesKept ==
  [][\A a \in passed : arrays'[a] = arrays[a]]_vars

\* C23: the GroupID an Extend call returns differs from RootGroupID and
\* from every GroupID in existence before the call, also when an earlier
\* call had the same parent and label; its Parent() is the GroupID that was
\* extended, and Parent() of RootGroupID is RootGroupID.
C23_ExtendStep ==
  (last'.op = "Extend") =>
    LET r == Extend(nodes, last'.gid, last'.name) IN
    /\ nodes' = r.nodes
    /\ r.gid # RootGroupID
    /\ r.gid \notin 0..Len(nodes)
    /\ Parent(nodes', r.gid) = last'.gid
    /\ Parent(nodes', RootGroupID) = RootGroupID

C23_ExtendFresh == [][C23_ExtendStep]_vars

\* Two Extend calls with the same parent and label have returned.
C23_Witness ==
  /\ last.op = "Extend"
  /\ Len(nodes) = 2 /\ nodes[1] = nodes[2]

\* C24: a Table viewed as a Grouping has no groups when it is empty (has no
\* columns) and exactly the group RootGroupID otherwise, also when it has
\* columns and zero rows; Table(RootGroupID) is the Table itself when it is
\* not empty and nil when it is; Table(gid) is nil for every other gid.
C24_TableAsGrouping ==
  \A i \in 1..Len(tabs) :
    LET t == tabs[i]
        gr == AsGrouping(t)
    IN /\ (Columns(t) = <<>>) => Groups(gr) = <<>> /\ Table(gr, RootGroupID) = NilTable
       /\ (Columns(t) # <<>>) => Groups(gr) = <<RootGroupID>> /\ Table(gr, RootGroupID) = t
       /\ \A gid \in 1..MaxExtend : Table(gr, gid) = NilTable

\* Add has made a Table with a column and zero rows.
C24_Witness ==
  /\ last.op = "Add" /\ last.err = ""
  /\ \E i \in 1..Len(tabs) : Columns(tabs[i]) # <<>> /\ Len_(tabs[i]) = 0

\* C25: AddTable fails when the Grouping already has another group and the
\* added Table binds a column name to a slice whose element type differs
\* from that of the same-named column of an existing group.
C25_ElemTypeStep ==
  ( /\ last'.op = "AddTable"
    /\ \E gid2 \in GroupSet(g) \ {last'.gid} :
         \E c \in DOMAIN last'.t.cols \cap DOMAIN Table(g, gid2).cols :
           ElemTypeOf(Column(last'.t, c)) # ElemTypeOf(Column(Table(g, gid2), c)) )
  => last'.err # ""

C25_ElemTypeChecked == [][C25_ElemTypeStep]_vars

\* C29: the error of a failing AddTable is a function of its arguments: every
\* failure the same call can produce has the same variant and names the same
\* column, also with several missing or several extra columns.
C29_ErrorDeterministic ==
  (last.op = "AddTable" /\ last.err # "") =>
    /\ \A o \in AddTable(g, last.gid, last.t) : o.err = last.err
    /\ \A col \in PanicColumns(GColumns(g), last.t) : col = last.name

\* C26: Add(name, nil) does not fail and removes column name: on a Table
\* whose only column is name it returns the empty Table, and on a Table
\* without column name it returns a Table equal to the receiver.
C26_AddNilRemoves ==
  (last.op = "Add" /\ last.data = NilData) =>
    /\ last.err = ""
    /\ LET r == tabs[last.recv]
           nt == tabs[Len(tabs)]
       IN /\ (Columns(r) = <<last.name>>) => nt = EmptyTable
          /\ (~HasColumn(r, last.name)) =>
               Columns(nt) = Columns(r) /\ nt.cols = r.cols /\ Len_(nt) = Len_(r)

\* C28: applying Ungroup repeatedly to a Grouping reaches, after finitely
\* many calls, a Grouping with at most one group, whose Table has the columns
\* and rows of Flatten of the Grouping, in the same order.  Every call moves
\* the groups one level up the GroupID tree, so MaxNodes further calls after
\* the first are enough.
RECURSIVE UngroupTimes(_, _, _)
UngroupTimes(ns, outs, n) ==
  IF n = 0 THEN outs
  ELSE UngroupTimes(ns, UNION { IF o.err # "" THEN {o} ELSE Ungroup(ns, o.g) : o \in outs }, n - 1)
C28_UngroupReachesFlatten ==
  (last.op = "Ungroup") =>
    \A o \in UngroupTimes(nodes, { IF last.err = "" THEN OkG(g) ELSE PanicG(last.err) }, MaxNodes) :
      /\ o.err = ""
      /\ Len(Groups(o.g)) <= 1
      /\ \A f \in Flatten(last.g0) :
           /\ f.err = ""
           /\ f.t = (IF Len(Groups(o.g)) = 0 THEN EmptyTable ELSE Table(o.g, Groups(o.g)[1]))

\* C30: with at least one grouping column, every group of the result of
\* GroupBy has at least one row: a group with columns and zero rows
\* contributes no group, and GroupBy of a Grouping whose groups all have zero
\* rows returns the empty Grouping, without columns.
C30_GroupByNoEmptyGroups ==
  (last.op = "GroupBy" /\ Len(last.cols) >= 1) =>
    /\ (last.err = "") => \A gid \in GroupSet(g) : Len_(Table(g, gid)) >= 1
    /\ ( /\ TotalRows(last.g0) = 0
         /\ \A i \in 1..Len(last.cols) : last.cols[i] \in NameSet(GColumns(last.g0)) )
       => (last.err = "" /\ g = AsGrouping(EmptyTable))

\* GroupBy has returned the empty Grouping for a Grouping of two groups
\* without rows.
C30_Witness ==
  /\ last.op = "GroupBy" /\ last.err = "" /\ Len(last.cols) >= 1
  /\ Len(Groups(last.g0)) >= 2 /\ TotalRows(last.g0) = 0
  /\ g = AsGrouping(EmptyTable)

====
